---- MODULE Spec2Model ----
(***************************************************************************)
(* Model of bzt/modules/shellexec.py: the ShellExecutor engine module      *)
(* (stage scheduler) and its Task objects (one external shell process      *)
(* each).                                                                  *)
(*                                                                         *)
(* Python values are modelled by strings: the booleans are "True" and      *)
(* "False", the integers one and zero are "1" and "0", a non-empty string  *)
(* that is not a stage name or a command is "yes", the empty string is     *)
(* "", None is "None" and a key that is missing from a dict is "absent".   *)
(***************************************************************************)
EXTENDS Naturals, Sequences, FiniteSets, TLC

VARIABLES
    settings,    \* self.settings, flattened: the task dicts in iteration order
    task_list,   \* self.task_list: sequence of task ids (index in settings)
    process,     \* Task.process of every task id
    pc,          \* position of the control thread
    cur_stage,   \* argument of the running (or last) process_stage call
    tasks,       \* the local list `tasks` of the running phase, rest to visit
    k,           \* position of ShellExecutor.prepare in its loop
    prep,        \* how the loops of ShellExecutor.prepare ended
    result,      \* how the last host call ended
    warned,      \* the last post_process call logged its warning
    calls,       \* number of host calls made after prepare()
    call,        \* what the running (or last) process_stage call did so far
    starts,      \* number of times startup() launched a process, per task
    drains,      \* number of times shutdown() read the output files, per task
    vconf,       \* Task.prepare on its own: the dict given to Task()
    vres         \* Task.prepare on its own: "none", "accepted" or "ValueError"

vars == <<settings, task_list, process, pc, cur_stage, tasks, k, prep, result,
          warned, calls, call, starts, drains, vconf, vres>>

----------------------------------------------------------------------------
(* Bounds *)

MaxTasks == 2
MaxCalls == 2

----------------------------------------------------------------------------
(* Python values *)

\* membership `x in [True, False]`: list membership compares with ==, and
\* 1 == True, 0 == False in Python
InTrueFalse(x) == x \in {"True", "False", "1", "0"}

\* truth value of a Python object
Truthy(x) == x \notin {"False", "0", "", "None", "absent"}

IsBool(x) == x \in {"True", "False"}

POSSIBLE_STAGES == <<"prepare", "startup", "check", "post-process", "shutdown">>

StageSet == {POSSIBLE_STAGES[i] : i \in 1..Len(POSSIBLE_STAGES)}

----------------------------------------------------------------------------
(* Task.__init__ / Task.prepare *)

\* default_config = {...}; default_config.update(self.config)
default_config(c) ==
    [c EXCEPT !.stop  = IF c.stop  = "absent" THEN "post-process" ELSE c.stop,
              !.block = IF c.block = "absent" THEN "False" ELSE c.block,
              !.sof   = IF c.sof   = "absent" THEN "False" ELSE c.sof]

\* the check of the command left out
CommandMissingNever(c) == FALSE

\* `not self.config.get("command")`
CommandMissing(c) == ~Truthy(c.command)

\* `self.config["start-stage"] == "startup" and self.config["block"]`
BlockOnStartup(c) == c.start = "startup" /\ Truthy(c.block)

\* Task.prepare: "ValueError" when one of the four checks raises
TaskPrepare(conf) ==
    LET c == default_config(conf) IN
    IF c.stop \notin StageSet THEN "ValueError"
    ELSE IF ~InTrueFalse(c.block) \/ ~InTrueFalse(c.sof) THEN "ValueError"
    ELSE IF CommandMissing(c) THEN "ValueError"
    ELSE IF BlockOnStartup(c) THEN "ValueError"
    ELSE "accepted"

\* task.config of task id t (the normalised dict)
Config(t) == default_config(settings[t])

----------------------------------------------------------------------------
(* Inputs *)

\* every dict Task() can be given: start-stage is set by the scheduler
AllConfigs ==
    [start   : StageSet,
     stop    : StageSet \cup {"absent", "yes", "None"},
     block   : {"absent", "True", "False", "1", "0", "yes", "None"},
     sof     : {"absent", "True", "False", "1", "0", "yes", "None"},
     command : {"absent", "", "None", "cmd"}]

\* the task dicts of the scheduler runs that Task() accepts: tasks of two
\* stages that stop at the default stage, and a task that stops where it starts
ValidRunConfigs ==
    [start   : {"prepare", "check"},
     stop    : {"absent"},
     block   : {"absent", "True"},
     sof     : {"absent", "True"},
     command : {"cmd"}]
    \cup
    [start   : {"check"},
     stop    : {"check"},
     block   : {"absent"},
     sof     : {"absent"},
     command : {"cmd"}]

NoOptions == [stop |-> "absent", block |-> "absent", sof |-> "absent"]

\* the task dicts of the scheduler runs that raise ValueError
InvalidRunConfigs ==
    {[start |-> "check", command |-> "absent"] @@ NoOptions,
     [start |-> "check", command |-> ""] @@ NoOptions,
     [start |-> "bogus", command |-> "cmd"] @@ NoOptions,
     [NoOptions EXCEPT !.stop = "yes"] @@ [start |-> "check", command |-> "cmd"],
     [NoOptions EXCEPT !.block = "True"] @@ [start |-> "startup", command |-> "cmd"]}

RunConfigs == ValidRunConfigs \cup InvalidRunConfigs

\* self.settings is a dict keyed by stage: the tasks of one stage are adjacent
Grouped(s) ==
    \A i, j \in 1..Len(s) :
        (i < j /\ s[i].start = s[j].start) =>
            \A m \in i..j : s[m].start = s[i].start

SettingsSet ==
    {s \in UNION {[1..n -> RunConfigs] : n \in 0..MaxTasks} : Grouped(s)}

----------------------------------------------------------------------------
(* helpers on sequences *)

RECURSIVE SelectSeqIds(_, _)
\* [task for task in seq if test]: the ids of seq that are in S, in order
SelectSeqIds(seq, S) ==
    IF seq = <<>> THEN <<>>
    ELSE IF Head(seq) \in S THEN <<Head(seq)>> \o SelectSeqIds(Tail(seq), S)
    ELSE SelectSeqIds(Tail(seq), S)

Range(seq) == {seq[i] : i \in 1..Len(seq)}

\* list.remove(x): drops the first element equal to x
RECURSIVE Remove(_, _)
Remove(seq, x) ==
    IF seq = <<>> THEN <<>>
    ELSE IF Head(seq) = x THEN Tail(seq)
    ELSE <<Head(seq)>> \o Remove(Tail(seq), x)

----------------------------------------------------------------------------
(* ShellExecutor: task selection of the three phases *)

\* _start_tasks: task.config.get("start-stage") == cur_stage
StartSelect(stage) ==
    SelectSeqIds(task_list, {t \in Range(task_list) : Config(t).start = stage})

\* the flag test negated
WaitSelectNonBlocking(stage) ==
    SelectSeqIds(task_list, {t \in Range(task_list) :
                     ~Truthy(Config(t).block) /\ Config(t).start = stage})

\* the flag test left out: every task of the stage is awaited
WaitSelectAll(stage) ==
    SelectSeqIds(task_list, {t \in Range(task_list) : Config(t).start = stage})

\* _wait_blocking_tasks: config.get("block") and start-stage == cur_stage
WaitSelect(stage) ==
    SelectSeqIds(task_list, {t \in Range(task_list) :
                     Truthy(Config(t).block) /\ Config(t).start = stage})

\* the tasks to shut down chosen by their stop-stage
ShutdownSelectByStop(stage) ==
    SelectSeqIds(task_list, {t \in Range(task_list) : Config(t).stop = stage})

\* _shutdown_tasks: task.config.get("start-stage") == cur_stage
ShutdownSelect(stage) ==
    SelectSeqIds(task_list, {t \in Range(task_list) : Config(t).start = stage})

PhaseSelect(phase, stage) ==
    CASE phase = "start"    -> StartSelect(stage)
      [] phase = "wait"     -> WaitSelect(stage)
      [] phase = "shutdown" -> ShutdownSelect(stage)

\* process_stage: the three calls in order
process_stage == <<"start", "wait", "shutdown">>

\* the phase after `phase`, "return" after the last one
NextPhase(phase) ==
    LET i == CHOOSE j \in 1..Len(process_stage) : process_stage[j] = phase IN
    IF i < Len(process_stage) THEN process_stage[i + 1] ELSE "return"

----------------------------------------------------------------------------
(* Task.is_finished *)

\* stop-on-fail left out
is_finished_no_raise(t) ==
    CASE process[t] = "None"    -> "AttributeError"
      [] process[t] = "Running" -> "False"
      [] OTHER                  -> "True"

\* ret_code = self.process.poll(); the answer or the exception raised
is_finished(t) ==
    CASE process[t] = "None"    -> "AttributeError"
      [] process[t] = "Running" -> "False"
      [] process[t] = "Exit0"   -> "True"
      [] OTHER                  -> IF Truthy(Config(t).sof)
                                   THEN "AutomatedShutdown"
                                   ELSE "True"

----------------------------------------------------------------------------
(* the record of one process_stage call *)

NewCall ==
    [list0      |-> task_list, \* task_list when process_stage was entered
     launched   |-> {},        \* tasks whose startup() returned
     failed     |-> 0,         \* task whose startup() raised, else 0
     waitPolled |-> {},        \* tasks polled by _wait_blocking_tasks
     polledTrue |-> {},        \* tasks whose poll there returned True
     sleptOn    |-> {},        \* tasks the call slept on
     fatalSeen  |-> 0,         \* stop-on-fail task seen failed while awaited
     shut       |-> {},        \* tasks whose shutdown() returned
     killed     |-> {},        \* tasks given to shutdown_process
     raisedIn   |-> "none",    \* phase an exception came from
     raisedBy   |-> 0,         \* task whose is_finished() raised, else 0
     lastPoll   |-> [task |-> 0, seen |-> "none", answer |-> "none"],
                               \* last is_finished(): task, process, answer
     order      |-> <<>>]      \* kinds of the operations made, in order

\* append the kind of an operation unless it repeats the last kind
Log(order, kind) ==
    IF order # <<>> /\ order[Len(order)] = kind THEN order
    ELSE Append(order, kind)

----------------------------------------------------------------------------
(* Initial state: after ShellExecutor.__init__ *)

Init ==
    /\ settings \in SettingsSet
    /\ task_list = <<>>
    /\ process = [t \in 1..Len(settings) |-> "None"]
    /\ pc = "new"
    /\ cur_stage = "none"
    /\ tasks = <<>>
    /\ k = 0
    /\ prep = "none"
    /\ result = "none"
    /\ warned = FALSE
    /\ calls = 0
    /\ call = NewCall
    /\ starts = [t \in 1..Len(settings) |-> 0]
    /\ drains = [t \in 1..Len(settings) |-> 0]
    /\ vconf = "none"
    /\ vres = "none"

----------------------------------------------------------------------------
(* Actions *)

\* entry of process_stage(stage): the first phase computes its list
EnterStage(stage) ==
    /\ cur_stage' = stage
    /\ pc' = process_stage[1]
    /\ tasks' = PhaseSelect(process_stage[1], stage)
    /\ call' = NewCall
    /\ result' = "running"
    /\ warned' = FALSE

\* the host calls prepare()
HostPrepare ==
    /\ pc = "new"
    /\ pc' = "configure"
    /\ k' = 1
    /\ result' = "running"
    /\ UNCHANGED <<settings, task_list, process, cur_stage, tasks, prep,
                   warned, calls, call, starts, drains, vconf, vres>>

\* a dict that raises is logged and skipped
ConfigureTaskSkip ==
    /\ pc = "configure"
    /\ k <= Len(settings)
    /\ IF settings[k].start \in StageSet /\ TaskPrepare(settings[k]) = "accepted"
       THEN task_list' = Append(task_list, k)
       ELSE UNCHANGED task_list
    /\ k' = k + 1
    /\ UNCHANGED <<settings, process, pc, cur_stage, tasks, prep, result,
                   warned, calls, call, starts, drains, vconf, vres>>

\* one turn of the loops of ShellExecutor.prepare
ConfigureTask ==
    /\ pc = "configure"
    /\ k <= Len(settings)
    /\ IF settings[k].start \notin StageSet
       THEN \* raise ValueError("Wrong stage name in shellexec config!")
            /\ result' = "ValueError"
            /\ prep' = "ValueError"
            /\ pc' = "idle"
            /\ UNCHANGED <<task_list, k>>
       ELSE IF TaskPrepare(settings[k]) = "accepted"
       THEN /\ task_list' = Append(task_list, k)
            /\ k' = k + 1
            /\ UNCHANGED <<result, prep, pc>>
       ELSE \* except ValueError: log, raise
            /\ result' = "ValueError"
            /\ prep' = "ValueError"
            /\ pc' = "idle"
            /\ UNCHANGED <<task_list, k>>
    /\ UNCHANGED <<settings, process, cur_stage, tasks, warned, calls, call,
                   starts, drains, vconf, vres>>

\* end of the loops: self.process_stage("prepare")
ConfigureDone ==
    /\ pc = "configure"
    /\ k > Len(settings)
    /\ EnterStage("prepare")
    /\ prep' = "built"
    /\ UNCHANGED <<settings, task_list, process, k, calls, starts, drains, vconf, vres>>

\* the host calls startup(), check(), shutdown() or post_process()
HostCall ==
    /\ pc = "idle"
    /\ calls < MaxCalls
    /\ \E stage \in StageSet \ {"prepare"} : EnterStage(stage)
    /\ calls' = calls + 1
    /\ UNCHANGED <<settings, task_list, process, k, prep, starts, drains, vconf, vres>>

\* the start loop polls each task right after launching it
StartTaskOkPolled ==
    /\ pc = "start"
    /\ tasks # <<>>
    /\ LET t == Head(tasks) IN
        /\ process' = [process EXCEPT ![t] = "Running"]
        /\ starts' = [starts EXCEPT ![t] = @ + 1]
        /\ call' = [call EXCEPT !.launched = @ \cup {t},
                                !.waitPolled = @ \cup {t},
                                !.order = Log(Log(@, "launch"), "poll")]
    /\ tasks' = Tail(tasks)
    /\ UNCHANGED <<settings, task_list, pc, cur_stage, k, prep, result, warned,
                   calls, drains, vconf, vres>>

\* startup() also registers the task in task_list
StartTaskOkRegisters ==
    /\ pc = "start"
    /\ tasks # <<>>
    /\ LET t == Head(tasks) IN
        /\ process' = [process EXCEPT ![t] = "Running"]
        /\ starts' = [starts EXCEPT ![t] = @ + 1]
        /\ task_list' = Append(task_list, t)
        /\ call' = [call EXCEPT !.launched = @ \cup {t},
                                !.order = Log(@, "launch")]
    /\ tasks' = Tail(tasks)
    /\ UNCHANGED <<settings, pc, cur_stage, k, prep, result, warned,
                   calls, drains, vconf, vres>>

\* task.startup() returns: files opened, process launched
StartTaskOk ==
    /\ pc = "start"
    /\ tasks # <<>>
    /\ LET t == Head(tasks) IN
        /\ process' = [process EXCEPT ![t] = "Running"]
        /\ starts' = [starts EXCEPT ![t] = @ + 1]
        /\ call' = [call EXCEPT !.launched = @ \cup {t},
                                !.order = Log(@, "launch")]
    /\ tasks' = Tail(tasks)
    /\ UNCHANGED <<settings, task_list, pc, cur_stage, k, prep, result, warned,
                   calls, drains, vconf, vres>>

\* the exception of task.startup() is logged and not raised again
StartTaskFailSwallowed ==
    /\ pc = "start"
    /\ tasks # <<>>
    /\ call' = [call EXCEPT !.failed = Head(tasks),
                            !.order = Log(@, "launch")]
    /\ tasks' = Tail(tasks)
    /\ UNCHANGED <<settings, task_list, process, pc, cur_stage, k, prep,
                   result, warned, calls, starts, drains, vconf, vres>>

\* task.startup() raises (open() or shell_exec() failed): logged, re-raised
StartTaskFail ==
    /\ pc = "start"
    /\ tasks # <<>>
    /\ call' = [call EXCEPT !.failed = Head(tasks), !.raisedIn = "start",
                            !.order = Log(@, "launch")]
    /\ result' = "LaunchError"
    /\ pc' = "idle"
    /\ UNCHANGED <<settings, task_list, process, cur_stage, tasks, k, prep, warned,
                   calls, starts, drains, vconf, vres>>

\* one `task.is_finished()` of the while loop of _wait_blocking_tasks
WaitPoll ==
    /\ pc = "wait"
    /\ tasks # <<>>
    /\ LET t == Head(tasks)
           r == is_finished(t)
           c == [call EXCEPT !.waitPolled = @ \cup {t},
                             !.order = Log(@, "poll"),
                             !.lastPoll = [task |-> t, seen |-> process[t],
                                           answer |-> r],
                             !.fatalSeen =
                                 IF process[t] = "ExitN" /\ Truthy(Config(t).sof)
                                 THEN t ELSE @]
       IN
        CASE r = "False" ->
                /\ call' = [c EXCEPT !.sleptOn = @ \cup {t}]
                /\ UNCHANGED <<tasks, pc, result>>
          [] r = "True" ->
                /\ call' = [c EXCEPT !.polledTrue = @ \cup {t}]
                /\ tasks' = Tail(tasks)
                /\ UNCHANGED <<pc, result>>
          [] OTHER ->
                /\ call' = [c EXCEPT !.raisedIn = "wait", !.raisedBy = t]
                /\ result' = r
                /\ pc' = "idle"
                /\ UNCHANGED tasks
    /\ UNCHANGED <<settings, task_list, process, cur_stage, k, prep, warned, calls,
                   starts, drains, vconf, vres>>

\* task.shutdown() without the removal from task_list
ShutdownTaskKeeps ==
    /\ pc = "shutdown"
    /\ tasks # <<>>
    /\ LET t == Head(tasks)
           r == is_finished(t)
           c == [call EXCEPT !.order = Log(@, "shutdown"),
                             !.lastPoll = [task |-> t, seen |-> process[t],
                                           answer |-> r]]
       IN
        CASE r \in {"False", "True"} ->
                /\ process' = IF r = "False"
                              THEN [process EXCEPT ![t] = "Killed"]
                              ELSE process
                /\ call' = [c EXCEPT !.killed = IF r = "False"
                                                THEN @ \cup {t} ELSE @,
                                     !.shut = @ \cup {t}]
                /\ drains' = [drains EXCEPT ![t] = @ + 1]
                /\ tasks' = Tail(tasks)
                /\ UNCHANGED <<pc, result>>
          [] OTHER ->
                /\ call' = [c EXCEPT !.raisedIn = "shutdown", !.raisedBy = t]
                /\ result' = r
                /\ pc' = "idle"
                /\ UNCHANGED <<tasks, process, drains>>
    /\ UNCHANGED <<settings, task_list, cur_stage, k, prep, warned, calls,
                   starts, vconf, vres>>

\* one turn of the loop of _shutdown_tasks: task.shutdown(), then remove
ShutdownTask ==
    /\ pc = "shutdown"
    /\ tasks # <<>>
    /\ LET t == Head(tasks)
           r == is_finished(t)
           c == [call EXCEPT !.order = Log(@, "shutdown"),
                             !.lastPoll = [task |-> t, seen |-> process[t],
                                           answer |-> r]]
       IN
        CASE r = "False" ->
                \* shutdown_process(self.process), then the files are read
                /\ process' = [process EXCEPT ![t] = "Killed"]
                /\ call' = [c EXCEPT !.killed = @ \cup {t},
                                     !.shut = @ \cup {t}]
                /\ drains' = [drains EXCEPT ![t] = @ + 1]
                /\ task_list' = Remove(task_list, t)
                /\ tasks' = Tail(tasks)
                /\ UNCHANGED <<pc, result>>
          [] r = "True" ->
                \* nothing to terminate; the files are read
                /\ call' = [c EXCEPT !.shut = @ \cup {t}]
                /\ drains' = [drains EXCEPT ![t] = @ + 1]
                /\ task_list' = Remove(task_list, t)
                /\ tasks' = Tail(tasks)
                /\ UNCHANGED <<pc, result, process>>
          [] OTHER ->
                /\ call' = [c EXCEPT !.raisedIn = "shutdown", !.raisedBy = t]
                /\ result' = r
                /\ pc' = "idle"
                /\ UNCHANGED <<tasks, task_list, process, drains>>
    /\ UNCHANGED <<settings, cur_stage, k, prep, warned, calls, starts, vconf, vres>>

\* post_process without its warning
PhaseDoneQuiet ==
    /\ pc \in Range(process_stage)
    /\ tasks = <<>>
    /\ IF NextPhase(pc) = "return"
       THEN /\ pc' = "idle"
            /\ result' = "ok"
            /\ UNCHANGED <<tasks, warned>>
       ELSE /\ pc' = NextPhase(pc)
            /\ tasks' = PhaseSelect(NextPhase(pc), cur_stage)
            /\ UNCHANGED <<result, warned>>
    /\ UNCHANGED <<settings, task_list, process, cur_stage, k, prep, calls,
                   call, starts, drains, vconf, vres>>

\* the loop of a phase is over: the next call of process_stage, or its return
\* to prepare/startup/check/shutdown/post_process
PhaseDone ==
    /\ pc \in Range(process_stage)
    /\ tasks = <<>>
    /\ IF NextPhase(pc) = "return"
       THEN /\ pc' = "idle"
            /\ result' = "ok"
            /\ warned' = (cur_stage = "post-process" /\ task_list # <<>>)
            /\ UNCHANGED tasks
       ELSE /\ pc' = NextPhase(pc)
            /\ tasks' = PhaseSelect(NextPhase(pc), cur_stage)
            /\ UNCHANGED <<result, warned>>
    /\ UNCHANGED <<settings, task_list, process, cur_stage, k, prep, calls, call,
                   starts, drains, vconf, vres>>

\* the operating system: a launched process exits, with code 0 or not
ProcessExit ==
    /\ \E t \in 1..Len(settings), code \in {"Exit0", "ExitN"} :
        /\ process[t] = "Running"
        /\ process' = [process EXCEPT ![t] = code]
    /\ UNCHANGED <<settings, task_list, pc, cur_stage, tasks, k, prep, result,
                   warned, calls, call, starts, drains, vconf, vres>>

Next ==
    \/ HostPrepare
    \/ ConfigureTask
    \/ ConfigureDone
    \/ HostCall
    \/ StartTaskOk
    \/ StartTaskFail
    \/ WaitPoll
    \/ ShutdownTask
    \/ PhaseDone
    \/ ProcessExit

Spec == Init /\ [][Next]_vars

----------------------------------------------------------------------------
(* Scheduling: the control thread runs on, and blocking processes exit *)

\* the steps of the thread that runs prepare() and process_stage()
Control ==
    \/ ConfigureTask
    \/ ConfigureDone
    \/ StartTaskOk
    \/ StartTaskFail
    \/ WaitPoll
    \/ ShutdownTask
    \/ PhaseDone

\* the process of a blocking task exits
BlockingExit ==
    /\ \E t \in 1..Len(settings), code \in {"Exit0", "ExitN"} :
        /\ Truthy(Config(t).block)
        /\ process[t] = "Running"
        /\ process' = [process EXCEPT ![t] = code]
    /\ UNCHANGED <<settings, task_list, pc, cur_stage, tasks, k, prep, result,
                   warned, calls, call, starts, drains, vconf, vres>>

\* the task dicts of the runs checked for termination: tasks of one stage,
\* blocking or not, with or without stop-on-fail
FairConfigs ==
    [start   : {"check"},
     stop    : {"absent"},
     block   : {"absent", "True"},
     sof     : {"absent", "True"},
     command : {"cmd"}]

InitFair == Init /\ \A i \in 1..Len(settings) : settings[i] \in FairConfigs

SpecFair ==
    InitFair /\ [][Next]_vars /\ WF_vars(Control) /\ WF_vars(BlockingExit)

----------------------------------------------------------------------------
(* Task() on its own: every dict the constructor can be given *)

InitValidate ==
    /\ settings = <<>>
    /\ task_list = <<>>
    /\ process = <<>>
    /\ pc = "validate"
    /\ cur_stage = "none"
    /\ tasks = <<>>
    /\ k = 0
    /\ prep = "none"
    /\ result = "none"
    /\ warned = FALSE
    /\ calls = 0
    /\ call = NewCall
    /\ starts = <<>>
    /\ drains = <<>>
    /\ vconf \in AllConfigs
    /\ vres = "none"

\* Task(config, log, dir): __init__ runs self.prepare()
Construct ==
    /\ pc = "validate"
    /\ vres = "none"
    /\ vres' = TaskPrepare(vconf)
    /\ UNCHANGED <<settings, task_list, process, pc, cur_stage, tasks, k, prep,
                   result, warned, calls, call, starts, drains, vconf>>

NextValidate == Construct

SpecValidate == InitValidate /\ [][NextValidate]_vars

----------------------------------------------------------------------------
(* Properties *)

\* the last process_stage call has returned normally
Returned == pc = "idle" /\ result = "ok"

\* the tasks that were live when the running (or last) call was entered
Live0 == Range(call.list0)

\* the ids that follow t in the sequence seq
After(seq, t) ==
    {seq[j] : j \in {i \in 1..Len(seq) : \E h \in 1..(i - 1) : seq[h] = t}}

\* C1: when process_stage(s) returns normally, every task that was live and
\* whose stop stage is s has been shut down and is no longer in task_list, and
\* the tasks shut down by the call are exactly those whose stop stage is s.
C1_ShutdownByStopStage ==
    Returned =>
        /\ \A t \in Live0 :
              Config(t).stop = cur_stage =>
                  t \in call.shut /\ t \notin Range(task_list)
        /\ call.shut = {t \in Live0 : Config(t).stop = cur_stage}

\* C2: process_stage(s) returns normally only after a poll of the wait phase
\* has seen every blocking task of start stage s exited.
C2_BlockingAwaited ==
    Returned =>
        \A t \in Live0 :
            (Truthy(Config(t).block) /\ Config(t).start = cur_stage) =>
                /\ t \in call.polledTrue
                /\ process[t] \in {"Exit0", "ExitN"}

\* C2 witness: a call returned after sleeping on a blocking task of its stage
C2_Witness ==
    /\ Returned
    /\ \E t \in Live0 :
          /\ Truthy(Config(t).block) /\ Config(t).start = cur_stage
          /\ t \in call.sleptOn /\ t \in call.polledTrue

\* C3: when a poll of the wait phase sees a blocking stop-on-fail task exited
\* with a non-zero code, the call ends with AutomatedShutdown: no later
\* blocking task is polled, the shutdown phase is not entered, and no task
\* is shut down, terminated or removed.
C3_AbortInWait ==
    call.fatalSeen # 0 =>
        /\ pc = "idle"
        /\ result = "AutomatedShutdown"
        /\ call.raisedIn = "wait"
        /\ call.raisedBy = call.fatalSeen
        /\ After(WaitSelect(cur_stage), call.fatalSeen) \cap call.waitPolled = {}
        /\ "shutdown" \notin Range(call.order)
        /\ call.shut = {}
        /\ call.killed = {}
        /\ task_list = call.list0

\* C3 witness: the abort came from the first of two awaited tasks
C3_Witness ==
    /\ call.fatalSeen # 0
    /\ result = "AutomatedShutdown"
    /\ After(WaitSelect(cur_stage), call.fatalSeen) # {}

\* C4: when process_stage(s) returns normally, a non-blocking task of start
\* stage s whose stop stage is another stage was not waited for, is still in
\* task_list and was not terminated; a task is terminated only in the call
\* that processes its stop stage.
C4_NonBlockingLeftRunning ==
    /\ Returned =>
          \A t \in Live0 :
              (/\ ~Truthy(Config(t).block)
               /\ Config(t).start = cur_stage
               /\ Config(t).stop # cur_stage) =>
                  /\ t \notin call.sleptOn
                  /\ t \in Range(task_list)
                  /\ t \notin call.killed
                  /\ process[t] # "Killed"
    /\ \A t \in call.killed : Config(t).stop = cur_stage

\* C5: a task without stop-on-fail whose process exited with a non-zero code
\* never makes a call raise AutomatedShutdown, and it is shut down and removed
\* by the call that processes its stop stage.
C5_FailedTaskStoppedAtStopStage ==
    \A t \in 1..Len(settings) :
        (process[t] = "ExitN" /\ ~Truthy(Config(t).sof)) =>
            /\ call.raisedBy # t
            /\ t \in call.shut => Config(t).stop = cur_stage
            /\ (Returned /\ t \in Live0 /\ Config(t).stop = cur_stage) =>
                   t \in call.shut /\ t \notin Range(task_list)

\* rank of a kind of operation in the order start, wait, shut down
Rank(kind) ==
    CASE kind = "launch" -> 1 [] kind = "poll" -> 2 [] kind = "shutdown" -> 3

\* C6: within one process_stage call every launch precedes every poll of the
\* wait phase, and every such poll precedes every shutdown.
C6_PhasesOrdered ==
    \A i, j \in 1..Len(call.order) :
        i < j => Rank(call.order[i]) < Rank(call.order[j])

\* C6 witness: a call that launched, then polled, then shut down
C6_Witness == call.order = <<"launch", "poll", "shutdown">>

\* C7: a task dict without a command (key absent or empty) makes the
\* construction fail with ValueError, and its task is never in task_list.
C7_NoCommandNeverLive ==
    \A i \in 1..Len(settings) :
        ~Truthy(settings[i].command) =>
            /\ i \notin Range(task_list)
            /\ k <= i
            /\ process[i] = "None"
            /\ (k = i /\ pc # "configure") => prep = "ValueError"

\* C7 witness: prepare() failed on a dict whose only fault is the command,
\* and the host went on calling stages
C7_Witness ==
    /\ prep = "ValueError"
    /\ calls > 0
    /\ ~Truthy(settings[k].command)
    /\ TaskPrepare([settings[k] EXCEPT !.command = "cmd"]) = "accepted"

\* the four faults of a task dict, after the defaults
Faulty(c) ==
    \/ c.stop \notin StageSet
    \/ ~IsBool(c.block)
    \/ ~IsBool(c.sof)
    \/ c.command \in {"absent", "", "None"}
    \/ (c.start = "startup" /\ c.block = "True")

\* C8: Task() raises ValueError if and only if, after the defaults, the stop
\* stage is not a stage, block or stop-on-fail is not a boolean, the command
\* is missing, or the start stage is startup and block is true.
C8_ExactValidation ==
    vres # "none" =>
        (vres = "ValueError" <=> Faulty(default_config(vconf)))

\* the dict at position i makes ShellExecutor.prepare raise
Rejected(i) ==
    settings[i].start \notin StageSet \/ TaskPrepare(settings[i]) # "accepted"

SomeRejected == \E i \in 1..Len(settings) : Rejected(i)

FirstRejected == CHOOSE i \in 1..Len(settings) :
                     Rejected(i) /\ \A j \in 1..(i - 1) : ~Rejected(j)

\* C9: when a configured dict fails validation, prepare() raises on the first
\* such dict: no later dict is constructed or added, process_stage("prepare")
\* is never entered and, when prepare() ends, no task has been launched.
C9_PrepareAbortsOnFirstError ==
    SomeRejected =>
        /\ k <= FirstRejected
        /\ Range(task_list) \subseteq 1..(FirstRejected - 1)
        /\ cur_stage # "prepare"
        /\ prep # "built"
        /\ (pc = "idle" /\ calls = 0) =>
              /\ prep = "ValueError"
              /\ result = "ValueError"
              /\ k = FirstRejected
              /\ task_list = [i \in 1..(FirstRejected - 1) |-> i]
              /\ \A t \in 1..Len(settings) : process[t] = "None"
              /\ call.launched = {}

\* C9 witness: prepare() ended on a bad dict that is not the last one
C9_Witness ==
    /\ pc = "idle" /\ calls = 0
    /\ prep = "ValueError"
    /\ k < Len(settings)

\* C10: when a startup() of the start phase raises, the call ends with that
\* error: no later task is launched, the wait and shutdown phases are not
\* entered and task_list is as it was at entry.
C10_LaunchErrorAborts ==
    call.failed # 0 =>
        /\ pc = "idle"
        /\ result = "LaunchError"
        /\ call.raisedIn = "start"
        /\ After(StartSelect(cur_stage), call.failed) \cap call.launched = {}
        /\ call.order = <<"launch">>
        /\ call.waitPolled = {}
        /\ call.shut = {}
        /\ call.killed = {}
        /\ task_list = call.list0

\* C10 witness: the launch of the first of two tasks of a stage failed
C10_Witness ==
    /\ call.failed # 0
    /\ result = "LaunchError"
    /\ After(StartSelect(cur_stage), call.failed) # {}

\* the task ids of the configuration
TaskIds == 1..Len(settings)

\* C11: shutdown() of a started task never raises AutomatedShutdown: it
\* completes and the task is removed; AutomatedShutdown comes only from a
\* poll of the wait phase.
C11_ShutdownNeverAborts ==
    /\ result = "AutomatedShutdown" => call.raisedIn = "wait"
    /\ call.raisedIn # "shutdown"

\* C12: a blocking task has exited when it is shut down and is never given to
\* shutdown_process; shutdown_process gets only a task whose process was
\* still running at the poll of shutdown().
C12_KillOnlyUnfinished ==
    [][\A t \in TaskIds :
          /\ (t \in call'.shut /\ t \notin call.shut /\ Truthy(Config(t).block)) =>
                 (process[t] \in {"Exit0", "ExitN"} /\ t \notin call'.killed)
          /\ (t \in call'.killed /\ t \notin call.killed) =>
                 (/\ process[t] = "Running"
                  /\ call'.lastPoll = [task |-> t, seen |-> "Running",
                                       answer |-> "False"]
                  /\ ~Truthy(Config(t).block))
          /\ process'[t] = "Killed" => ~Truthy(Config(t).block)]_vars

\* C12 witness: one call shut down an exited blocking task without
\* terminating it and terminated a running non-blocking one
C12_Witness ==
    /\ \E t \in call.shut : Truthy(Config(t).block) /\ t \notin call.killed
    /\ \E u \in call.killed : process[u] = "Killed"

\* the answer the claim gives for a poll of a started task
PollAnswerOK(p) ==
    CASE p.seen = "Running" -> p.answer = "False"
      [] p.seen = "Exit0"   -> p.answer = "True"
      [] p.seen = "ExitN"   -> p.answer = IF Truthy(Config(p.task).sof)
                                          THEN "AutomatedShutdown" ELSE "True"
      [] OTHER              -> TRUE

\* C13: is_finished() of a started task answers False while the process
\* runs, True when it exited with 0 or with another code and no stop-on-fail,
\* and raises AutomatedShutdown when it exited with another code and
\* stop-on-fail is set; a poll changes no process, counter or task_list.
C13_IsFinishedAnswers ==
    [][/\ PollAnswerOK(call'.lastPoll)
       /\ (pc = "wait" /\ call' # call) =>
              /\ process' = process
              /\ task_list' = task_list
              /\ starts' = starts
              /\ drains' = drains
              /\ settings' = settings]_vars

\* C13 witness: a poll of the wait phase raised for a failed stop-on-fail task
C13_Witness ==
    /\ call.lastPoll.seen = "ExitN"
    /\ call.lastPoll.answer = "AutomatedShutdown"
    /\ call.raisedIn = "wait"

\* C14: once prepare() has built task_list, no step adds a task to it, so a
\* removed task never comes back.
C14_ListOnlyShrinks ==
    [][pc \notin {"new", "configure"} =>
          /\ Range(task_list') \subseteq Range(task_list)
          /\ Len(task_list') <= Len(task_list)]_vars

\* C14 witness: after further host calls some tasks are gone, others remain
C14_Witness ==
    /\ prep = "built"
    /\ calls > 0
    /\ task_list # <<>>
    /\ Len(task_list) < Len(settings)

\* C15: the output files of a task are read only by a shutdown() that
\* completes, once per task: no task is shut down twice, and startup() and
\* is_finished() never read them.
C15_DrainedOnce ==
    [][\A t \in TaskIds :
          /\ drains'[t] <= 1
          /\ drains'[t] # drains[t] =>
                 (pc = "shutdown" /\ t \in call'.shut /\ t \notin call.shut)
          /\ t \in call'.shut => drains'[t] = 1
          /\ drains'[t] = 1 => t \notin Range(task_list')]_vars

\* C15 witness: a task launched twice has been shut down and read once
C15_Witness == \E t \in TaskIds : drains[t] = 1 /\ starts[t] = 2

\* C16: when post_process() has processed its stage, the warning is logged
\* if and only if task_list is not empty; the call returns normally either
\* way and task_list is what the shutdown phase left.
C16_WarningExact ==
    /\ (Returned /\ cur_stage = "post-process") =>
          /\ warned <=> task_list # <<>>
          /\ task_list = SelectSeqIds(call.list0, Live0 \ call.shut)
    /\ warned => (Returned /\ cur_stage = "post-process")

\* C16 witness: post_process() returned with tasks left and warned
C16_Witness == Returned /\ cur_stage = "post-process" /\ warned

\* C18: is_finished() and shutdown() are only called on tasks whose process
\* was launched: a poll never meets self.process = None.
C18_NoOperationOnIdle ==
    /\ result # "AttributeError"
    /\ call.lastPoll.seen # "None"
    /\ pc \in {"wait", "shutdown"} =>
           \A t \in Range(tasks) : process[t] # "None"

\* C18 witness: a shutdown phase at work while an unlaunched task is live
C18_Witness ==
    /\ pc = "shutdown"
    /\ tasks # <<>>
    /\ calls > 0
    /\ \E u \in Range(task_list) : process[u] = "None"

\* C19: startup() is never called on a task whose process was already
\* launched, whatever the sequence of stage calls.
C19_LaunchedAtMostOnce == \A t \in TaskIds : starts[t] <= 1

\* C20: a process_stage call that ends in a launch error or in
\* AutomatedShutdown leaves task_list as it was at entry and has terminated
\* no process.
C20_FailedCallChangesNothing ==
    (pc = "idle" /\ result \in {"LaunchError", "AutomatedShutdown"}) =>
        /\ task_list = call.list0
        /\ call.shut = {}
        /\ call.killed = {}

\* C17: when every launched blocking process eventually exits, every
\* process_stage call ends; a call sleeps only in the wait phase and only on
\* blocking tasks of its stage, and while the awaited process runs nothing
\* but its exit lets the call go on (no timeout).
C17_CallsEnd ==
    /\ (pc \in {"start", "wait", "shutdown"}) ~> (pc = "idle")
    /\ [](\A t \in call.sleptOn :
             /\ t \in Live0
             /\ Truthy(Config(t).block)
             /\ Config(t).start = cur_stage)
    /\ [][/\ call'.sleptOn # call.sleptOn => (pc = "wait" \/ call'.sleptOn = {})
          /\ (/\ pc = "wait" /\ tasks # <<>>
              /\ process[Head(tasks)] = "Running"
              /\ process' = process) => (pc' = "wait" /\ tasks' = tasks)]_vars

\* C17 witness: a call that slept on a blocking task has ended
C17_Witness == pc = "idle" /\ call.sleptOn # {} /\ result = "ok"

====
